---- MODULE Spec2Model ----
(***************************************************************************)
(* Model of projects/sa2va/datasets/data_utils.py (Sa2VA):                 *)
(*   - find_closest_aspect_ratio / dynamic_preprocess  (SpecTile)          *)
(*   - tokenize_conversation                           (SpecTok)           *)
(*   - sa2va_collect_fn                                (SpecCollate)       *)
(* Python floats are IEEE-754 binary64; the quotients and differences of   *)
(* find_closest_aspect_ratio are computed here bit for bit, as fixed-point *)
(* bit strings rounded to 53 significant bits (round-half-to-even).        *)
(***************************************************************************)
EXTENDS Integers, Sequences, FiniteSets, TLC

\* ------------------------------------------------------------------------
\* Bounds of the model
\* ------------------------------------------------------------------------
MaxDim == 6         \* image width and height range over 1..MaxDim
MaxNum == 4         \* min_num and max_num range over 1..MaxNum
IntBits == 11       \* integer bits of the fixed-point carrier of a float
FracBits == 60      \* fraction bits of the fixed-point carrier of a float

\* Significant bits of a Python float (binary64).
MantissaBits == 53

\* ------------------------------------------------------------------------
\* binary64 arithmetic on bit strings (most significant bit first)
\* ------------------------------------------------------------------------
NumBits == IntBits + FracBits

\* A function over 1..n as a sequence.
AsSeq(f, n) == SubSeq(f, 1, n)

RECURSIVE Pow2(_)
Pow2(k) == IF k = 0 THEN 1 ELSE 2 * Pow2(k - 1)

\* 2^k modulo d, by repeated squaring.
RECURSIVE Pow2Mod(_, _)
Pow2Mod(k, d) ==
    IF k = 0 THEN 1 % d
    ELSE LET h == Pow2Mod(k \div 2, d)
         IN  (h * h * (IF k % 2 = 1 THEN 2 ELSE 1)) % d

\* The low k bits of the natural number n < 2^31, most significant first.
IntToBits(n, k) ==
    AsSeq([i \in 1..k |-> IF k - i > 30 THEN 0 ELSE (n \div Pow2(k - i)) % 2], k)

\* The remainder of rem * 2^k modulo d: what long division of rem/d is left
\* with after k fraction bits.
Remainder(rem, d, k) == (Pow2Mod(k, d) * rem) % d

\* Long division: the first k fraction bits of rem/d, for rem < d.
FracDivide(rem, d, k) ==
    AsSeq([i \in 1..k |-> (2 * Remainder(rem, d, i - 1)) \div d], k)

\* Index of the first 1 bit, or Len(b) + 1 when there is none.
LeadingOne(b) ==
    CHOOSE i \in 1..(Len(b) + 1) :
        /\ i = Len(b) + 1 \/ b[i] = 1
        /\ \A j \in 1..(i - 1) : b[j] = 0

Zeros0(n) == AsSeq([i \in 1..n |-> 0], n)

\* The last index at or before k that holds a 0 bit (0 when there is none).
LastZero(b, k) ==
    CHOOSE i \in 0..k :
        /\ i = 0 \/ b[i] = 0
        /\ \A j \in (i + 1)..k : b[j] = 1

\* b + 2^(Len(b) - k): add one unit at position k; the carry runs over the
\* 1 bits before k and stops at the last 0 bit.
AddUnit(b, k) ==
    LET z == LastZero(b, k)
    IN  SubSeq(b, 1, z - 1) \o <<1>> \o Zeros0(k - z) \o SubSeq(b, k + 1, Len(b))

\* Round an exact value (bits b, plus a non-zero tail below them when
\* sticky) to MantissaBits significant bits, ties to even.
RoundToFloat(b, sticky) ==
    LET p    == LeadingOne(b)
        last == p + MantissaBits - 1
    IN  IF last >= Len(b) THEN b
        ELSE LET tail == \E i \in (last + 2)..Len(b) : b[i] = 1
                 up   == b[last + 1] = 1 /\ (sticky \/ tail \/ b[last] = 1)
                 cut  == SubSeq(b, 1, last) \o Zeros0(Len(b) - last)
             IN  IF up THEN AddUnit(cut, last) ELSE cut

\* Python's n / d for positive ints: the correctly rounded quotient.
FloatDiv(n, d) ==
    RoundToFloat(IntToBits(n \div d, IntBits) \o FracDivide(n % d, d, FracBits),
                 Remainder(n % d, d, FracBits) # 0)

\* The bits of x after position i are less than those of y.
LessAfter(x, y, i) ==
    \E j \in (i + 1)..Len(x) :
        /\ x[j] < y[j]
        /\ \A k \in (i + 1)..(j - 1) : x[k] = y[k]

\* x < y on equal-length bit strings.
BitsLess(x, y) == LessAfter(x, y, 0)

\* x - y for x >= y, exact: bit i borrows when the bits after it are less.
BitsMinus(x, y) ==
    AsSeq([i \in 1..Len(x) |->
              (2 + x[i] - y[i] - (IF LessAfter(x, y, i) THEN 1 ELSE 0)) % 2],
          Len(x))

\* abs(x - y) on floats: the exact difference, rounded.
FloatAbsDiff(x, y) ==
    IF BitsLess(x, y)
    THEN RoundToFloat(BitsMinus(y, x), FALSE)
    ELSE RoundToFloat(BitsMinus(x, y), FALSE)

\* ------------------------------------------------------------------------
\* State
\* ------------------------------------------------------------------------
VARIABLES
    pc,                  \* position of the running function
    \* dynamic_preprocess
    image,               \* image.size, <<width, height>>
    min_num, max_num, image_size, use_thumbnail,
    target_ratios,       \* the sorted candidate grids
    target_aspect_ratio, \* the grid find_closest_aspect_ratio returned
    processed_images,    \* the returned tiles
    \* tokenize_conversation
    tokenizer,           \* [bos |-> bos_token_id, eos |-> eos_token_id]
    conversation,        \* the turns of example['conversation'] read so far
    max_length,
    input_ids, labels,
    next_needs_bos_token,
    appended,            \* history: what each append step added, in order
    \* sa2va_collect_fn (its input_ids and labels are the two above)
    instances,
    has_image, has_pe, has_grounding_image, has_mask, has_vp, has_prompt_mask,
    pixel_values, frames_per_batch, image_grid_thw, grounding_pixel_values,
    object_masks, vp_overall_mask, prompt_masks,
    ori_length, attention_mask, position_ids,
    data_dict,           \* the returned batch, <<>> until it is built
    error                \* the exception raised, <<>> while there is none

tileVars == <<image, min_num, max_num, image_size, use_thumbnail,
              target_ratios, target_aspect_ratio, processed_images>>

tokVars == <<tokenizer, conversation, max_length, input_ids, labels,
             next_needs_bos_token, appended>>

flagVars == <<has_image, has_pe, has_grounding_image, has_mask, has_vp,
              has_prompt_mask>>

listVars == <<pixel_values, frames_per_batch, image_grid_thw,
              grounding_pixel_values, object_masks, vp_overall_mask,
              prompt_masks>>

padVars == <<ori_length, attention_mask, position_ids>>

colVars == <<instances, flagVars, listVars, padVars, data_dict, error>>

vars == <<pc, tileVars, tokVars, colVars>>

\* ------------------------------------------------------------------------
\* dynamic_preprocess and find_closest_aspect_ratio
\* ------------------------------------------------------------------------
\* The set comprehension of dynamic_preprocess: every grid (i, j) whose
\* tile count lies in min..max.
CandidateRatios(min, max) ==
    {r \in UNION {(1..n) \X (1..n) : n \in min..max} :
        r[1] * r[2] <= max /\ r[1] * r[2] >= min}

Arrangements(S) ==
    {s \in [1..Cardinality(S) -> S] : \A i, j \in 1..Cardinality(S) :
                                         i # j => s[i] # s[j]}

\* sorted(target_ratios, key=tile count): the sort is stable over the
\* iteration order of a set, which Python leaves unspecified, so every
\* order of the grids of one tile count is possible.
RECURSIVE SortedByTiles(_, _, _)
SortedByTiles(S, n, max) ==
    IF n > max THEN {<<>>}
    ELSE {p \o rest : p \in Arrangements({r \in S : r[1] * r[2] = n}),
                      rest \in SortedByTiles(S, n + 1, max)}

\* abs(aspect_ratio - ratio[0] / ratio[1]) for every candidate, as floats.
RatioDiffs(width, height, S) ==
    LET aspect_ratio == FloatDiv(width, height)
    IN  {<<r, FloatAbsDiff(aspect_ratio, FloatDiv(r[1], r[2]))>> : r \in S}

DiffOf(table, r) == (CHOOSE e \in table : e[1] = r)[2]

\* area > 0.5 * image_size * image_size * ratio[0] * ratio[1]; both sides
\* are exact in binary64 for the sizes modelled.
AreaPrefers(width, height, size, ratio) ==
    2 * (width * height) > size * size * ratio[1] * ratio[2]

\* The loop of find_closest_aspect_ratio from index i on; best_ratio_diff
\* is <<>> while it is float('inf').
RECURSIVE ClosestLoop(_, _, _, _, _, _, _, _)
ClosestLoop(table, ratios, i, best_ratio, best_ratio_diff, width, height, size) ==
    IF i > Len(ratios) THEN best_ratio
    ELSE LET ratio      == ratios[i]
             ratio_diff == DiffOf(table, ratio)
         IN  IF best_ratio_diff = <<>> \/ BitsLess(ratio_diff, best_ratio_diff)
             THEN ClosestLoop(table, ratios, i + 1, ratio, ratio_diff,
                              width, height, size)
             ELSE IF ratio_diff = best_ratio_diff
                     /\ AreaPrefers(width, height, size, ratio)
             THEN ClosestLoop(table, ratios, i + 1, ratio, best_ratio_diff,
                              width, height, size)
             ELSE ClosestLoop(table, ratios, i + 1, best_ratio, best_ratio_diff,
                              width, height, size)

find_closest_aspect_ratio(table, ratios, width, height, size) ==
    ClosestLoop(table, ratios, 1, <<1, 1>>, <<>>, width, height, size)

\* The crop box of tile i (0-based) of the resized image.
Box(i, target_width, size) ==
    << (i % (target_width \div size)) * size,
       (i \div (target_width \div size)) * size,
       ((i % (target_width \div size)) + 1) * size,
       ((i \div (target_width \div size)) + 1) * size >>

Crops(ratio, size) ==
    [k \in 1..(ratio[1] * ratio[2]) |->
        [kind |-> "crop", box |-> Box(k - 1, size * ratio[1], size)]]

AppendsThumbnailAlways(thumbnail, tiles) == thumbnail

AppendsThumbnail(thumbnail, tiles) == thumbnail /\ Len(tiles) # 1

Thumbnail(size) == [kind |-> "thumbnail", box |-> <<0, 0, size, size>>]

\* Every outcome of lines 37-50: a sorted candidate list together with the
\* grid find_closest_aspect_ratio picks from it.
ClosestChoices(width, height, min, max, size) ==
    LET S     == CandidateRatios(min, max)
        table == RatioDiffs(width, height, S)
    IN  {<<sorted, find_closest_aspect_ratio(table, sorted, width, height, size)>> :
            sorted \in SortedByTiles(S, min, max)}

dynamic_preprocess ==
    /\ pc = "tile"
    /\ \E choice \in ClosestChoices(image[1], image[2], min_num, max_num,
                                    image_size) :
         LET tiles == Crops(choice[2], image_size)
         IN  /\ target_ratios' = choice[1]
             /\ target_aspect_ratio' = choice[2]
             /\ processed_images' =
                   IF AppendsThumbnail(use_thumbnail, tiles)
                   THEN Append(tiles, Thumbnail(image_size))
                   ELSE tiles
    /\ pc' = "tiled"
    /\ UNCHANGED <<image, min_num, max_num, image_size, use_thumbnail>>
    /\ UNCHANGED <<tokVars, colVars>>

\* Tile edge lengths of the model, and the sizes of the documented examples.
ImageSizes == {1, 2}
DocImageSize == 448
DocMaxNum == 6
DocImages == {<<1344, 448>>, <<448, 448>>, <<500, 1200>>}

InitColIdle ==
    /\ instances = <<>>
    /\ has_image = FALSE
    /\ has_pe = FALSE
    /\ has_grounding_image = FALSE
    /\ has_mask = FALSE
    /\ has_vp = FALSE
    /\ has_prompt_mask = FALSE
    /\ pixel_values = <<>>
    /\ frames_per_batch = <<>>
    /\ image_grid_thw = <<>>
    /\ grounding_pixel_values = <<>>
    /\ object_masks = <<>>
    /\ vp_overall_mask = <<>>
    /\ prompt_masks = <<>>
    /\ ori_length = <<>>
    /\ attention_mask = <<>>
    /\ position_ids = <<>>
    /\ data_dict = <<>>
    /\ error = <<>>

InitTokIdle ==
    /\ tokenizer = [bos |-> <<>>, eos |-> <<>>]
    /\ conversation = <<>>
    /\ max_length = 0
    /\ input_ids = <<>>
    /\ labels = <<>>
    /\ next_needs_bos_token = TRUE
    /\ appended = <<>>

InitTile ==
    /\ pc = "tile"
    /\ InitTokIdle
    /\ \/ /\ image \in (1..MaxDim) \X (1..MaxDim)
          /\ min_num \in 1..MaxNum
          /\ max_num \in 1..MaxNum
          /\ image_size \in ImageSizes
       \/ /\ image \in DocImages
          /\ min_num = 1
          /\ max_num = DocMaxNum
          /\ image_size = DocImageSize
    /\ use_thumbnail \in BOOLEAN
    /\ target_ratios = <<>>
    /\ target_aspect_ratio = <<1, 1>>
    /\ processed_images = <<>>
    /\ InitColIdle

NextTile == dynamic_preprocess

SpecTile == InitTile /\ [][NextTile]_vars

\* ------------------------------------------------------------------------
\* tokenize_conversation
\* ------------------------------------------------------------------------
MaxTurns == 2       \* turns of a conversation
MaxTok == 1         \* token ids a non-empty text encodes to
MaxLength == 2      \* max_length ranges over 0..MaxLength

IGNORE_INDEX == -100

\* An optional dict entry: <<>> when the key is absent, <<v>> when it is v.
Absent == <<>>
Some(v) == <<v>>

\* dict.get(key, default)
Get(entry, default) == IF entry = Absent THEN default ELSE entry[1]

Repeat(x, n) == [i \in 1..n |-> x]

\* tokenizer.encode(text, add_special_tokens=False): ids of the vocabulary,
\* none for the empty text and MaxTok of them otherwise.
TextToken == 5
Encodings == {<<>>, Repeat(TextToken, MaxTok)}

\* get_bos_eos_token_ids(tokenizer): two id lists; the BOS list is empty for
\* tokenizers without a BOS token, and the EOS id may be an id that text
\* encodes to.
Tokenizers == {[bos |-> b, eos |-> <<TextToken>>] : b \in {<<>>, <<1>>}}

\* One turn, its texts already encoded; sep is <<>> when the text is ''.
Turns ==
    [input : Encodings, output : Encodings, sep : Encodings,
     output_with_loss : {Absent, Some(TRUE), Some(FALSE)},
     need_eos_token : {Absent, Some(TRUE), Some(FALSE)}]

turn == conversation[Len(conversation)]

\* input_ids += ids; labels += labs, logged as one append step.
Extend(kind, ids, labs) ==
    /\ input_ids' = input_ids \o ids
    /\ labels' = labels \o labs
    /\ appended' = Append(appended,
                          [kind |-> kind, turn |-> Len(conversation),
                           at |-> Len(input_ids), ids |-> ids])

Ignored(ids) == Repeat(IGNORE_INDEX, Len(ids))

LossLabelsAlways(with_loss, ids) == ids

LossLabels(with_loss, ids) == IF with_loss THEN ids ELSE Ignored(ids)

\* for single_turn_conversation in example['conversation']
NextTurn ==
    /\ pc = "loop"
    /\ Len(conversation) < MaxTurns
    /\ \E t \in Turns : conversation' = Append(conversation, t)
    /\ pc' = "bos"
    /\ UNCHANGED <<tokenizer, max_length, input_ids, labels,
                   next_needs_bos_token, appended>>
    /\ UNCHANGED <<tileVars, colVars>>

AppendBos ==
    /\ pc = "bos"
    /\ IF next_needs_bos_token
       THEN Extend("bos", tokenizer.bos, Ignored(tokenizer.bos))
       ELSE UNCHANGED <<input_ids, labels, appended>>
    /\ pc' = "input"
    /\ UNCHANGED <<tokenizer, conversation, max_length, next_needs_bos_token>>
    /\ UNCHANGED <<tileVars, colVars>>

AppendInput ==
    /\ pc = "input"
    /\ Extend("input", turn.input, Ignored(turn.input))
    /\ pc' = "output"
    /\ UNCHANGED <<tokenizer, conversation, max_length, next_needs_bos_token>>
    /\ UNCHANGED <<tileVars, colVars>>

AppendOutput ==
    /\ pc = "output"
    /\ Extend("output", turn.output,
              LossLabels(Get(turn.output_with_loss, TRUE), turn.output))
    /\ pc' = "eos"
    /\ UNCHANGED <<tokenizer, conversation, max_length, next_needs_bos_token>>
    /\ UNCHANGED <<tileVars, colVars>>

NeedsEosDefaultFalse(t) == Get(t.need_eos_token, FALSE)

NeedsEos(t) == Get(t.need_eos_token, TRUE)

AppendEos ==
    /\ pc = "eos"
    /\ IF NeedsEos(turn)
       THEN /\ next_needs_bos_token' = TRUE
            /\ Extend("eos", tokenizer.eos,
                      LossLabels(Get(turn.output_with_loss, TRUE), tokenizer.eos))
       ELSE /\ next_needs_bos_token' = FALSE
            /\ UNCHANGED <<input_ids, labels, appended>>
    /\ pc' = "sep"
    /\ UNCHANGED <<tokenizer, conversation, max_length>>
    /\ UNCHANGED <<tileVars, colVars>>

AppendSep ==
    /\ pc = "sep"
    /\ IF turn.sep # <<>>
       THEN Extend("sep", turn.sep, Ignored(turn.sep))
       ELSE UNCHANGED <<input_ids, labels, appended>>
    /\ pc' = "loop"
    /\ UNCHANGED <<tokenizer, conversation, max_length, next_needs_bos_token>>
    /\ UNCHANGED <<tileVars, colVars>>

PrefixOffByOne(s, n) == IF Len(s) > n THEN SubSeq(s, 1, n + 1) ELSE s

Prefix(s, n) == IF Len(s) > n THEN SubSeq(s, 1, n) ELSE s

\* The end of the conversation: truncate to max_length and return.
Truncate ==
    /\ pc = "loop"
    /\ \E m \in 0..MaxLength :
         /\ max_length' = m
         /\ input_ids' = Prefix(input_ids, m)
         /\ labels' = Prefix(labels, m)
    /\ pc' = "returned"
    /\ UNCHANGED <<tokenizer, conversation, next_needs_bos_token, appended>>
    /\ UNCHANGED <<tileVars, colVars>>

InitTileIdle ==
    /\ image = <<1, 1>>
    /\ min_num = 1
    /\ max_num = 1
    /\ image_size = 1
    /\ use_thumbnail = FALSE
    /\ target_ratios = <<>>
    /\ target_aspect_ratio = <<1, 1>>
    /\ processed_images = <<>>

InitTok ==
    /\ pc = "loop"
    /\ tokenizer \in Tokenizers
    /\ conversation = <<>>
    /\ max_length = 0
    /\ input_ids = <<>>
    /\ labels = <<>>
    /\ next_needs_bos_token = TRUE
    /\ appended = <<>>
    /\ InitTileIdle
    /\ InitColIdle

NextTok ==
    \/ NextTurn
    \/ AppendBos
    \/ AppendInput
    \/ AppendOutput
    \/ AppendEos
    \/ AppendSep
    \/ Truncate

SpecTok == InitTok /\ [][NextTok]_vars

\* ------------------------------------------------------------------------
\* sa2va_collect_fn
\* ------------------------------------------------------------------------
MaxBatch == 2       \* records of a batch
MaxSeq == 2         \* token ids of a record

pad_index == 0

\* Values of a record's fields: None, a tensor (the ids of its entries along
\* the leading dimension; a mask vector holds 0 for False, 1 for True), or a
\* Python list of one-entry tensors.
None == [kind |-> "None", items |-> <<>>]
Tensor(items) == [kind |-> "Tensor", items |-> items]
List(items) == [kind |-> "list", items |-> items]

\* inst.get(key) is not None
NotNone(entry) == entry # Absent /\ entry[1].kind # "None"

\* An encoded example of n tokens; a real token may equal the pad id.
TextIds(n) == [i \in 1..n |-> IF i % 2 = 1 THEN pad_index ELSE TextToken]
TextLabels(n) == [i \in 1..n |-> IF i % 2 = 1 THEN IGNORE_INDEX ELSE TextToken]

Modal(pixel, grid, g, masks, vp, prompt) ==
    [pixel_values |-> pixel, image_grid_thw |-> grid, g_pixel_values |-> g,
     masks |-> masks, vp_overall_mask |-> vp, prompt_masks |-> prompt]

\* The optional fields of the records of the model.
Modalities ==
    { Modal(Absent, Absent, Absent, Absent, Absent, Absent),
      Modal(Some(Tensor(<<11>>)), Absent, Absent, Absent, Absent, Absent),
      Modal(Some(Tensor(<<12, 13>>)), Absent, Absent, Absent, Absent, Absent),
      Modal(Some(None), Absent, Absent, Absent, Absent, Absent),
      Modal(Some(Tensor(<<14>>)), Some(Tensor(<<1, 2, 2>>)), Absent, Absent,
            Absent, Absent),
      Modal(Some(Tensor(<<15>>)), Absent, Some(Tensor(<<21>>)),
            Some(Tensor(<<31>>)), Absent, Absent),
      Modal(Some(Tensor(<<16, 17>>)), Absent, Some(List(<<22, 23>>)),
            Some(List(<<32, 33>>)), Absent, Absent),
      Modal(Absent, Absent, Some(List(<<24, 25>>)), Absent, Absent, Absent),
      Modal(Some(Tensor(<<18>>)), Absent, Some(None), Some(None), Absent, Absent),
      Modal(Some(Tensor(<<19, 20>>)), Absent, Absent, Absent,
            Some(Tensor(<<1, 0>>)), Some(Tensor(<<41>>))),
      Modal(Absent, Absent, Absent, Absent, Some(Tensor(<<1>>)),
            Some(Tensor(<<42>>))),
      Modal(Some(Tensor(<<10>>)), Absent, Absent, Absent, Some(Tensor(<<0>>)),
            Absent),
      Modal(Some(Tensor(<<9>>)), Absent, Absent, Absent, Some(None),
            Some(Tensor(<<43>>))) }

Records ==
    {[input_ids |-> TextIds(n), labels |-> TextLabels(n), modal |-> m] :
        n \in 0..MaxSeq, m \in Modalities}

Batches == UNION {[1..n -> Records] : n \in 0..MaxBatch}

Raise(type, line) ==
    /\ error' = Some([type |-> type, line |-> line])
    /\ pc' = "failed"

AnyNotNone(entries) == \E i \in 1..Len(entries) : NotNone(entries[i])

Field(key) == [i \in 1..Len(instances) |-> instances[i].modal[key]]

\* Lines 190-202: the two unsupported modes, then the presence flags.
Presence ==
    /\ pc = "collate"
    /\ \E return_hf_format \in BOOLEAN, use_varlen_attn \in BOOLEAN :
         IF return_hf_format
         THEN Raise("AssertionError", 190) /\ UNCHANGED flagVars
         ELSE IF use_varlen_attn
         THEN Raise("AssertionError", 191) /\ UNCHANGED flagVars
         ELSE /\ has_image' = AnyNotNone(Field("pixel_values"))
              /\ has_pe' = AnyNotNone(Field("image_grid_thw"))
              /\ has_grounding_image' = AnyNotNone(Field("g_pixel_values"))
              /\ has_mask' = AnyNotNone(Field("masks"))
              /\ has_vp' = AnyNotNone(Field("vp_overall_mask"))
              /\ has_prompt_mask' = AnyNotNone(Field("prompt_masks"))
              /\ pc' = "assert"
              /\ UNCHANGED error
    /\ UNCHANGED <<instances, listVars, padVars, data_dict, input_ids, labels>>
    /\ UNCHANGED <<tileVars, tokenizer, conversation, max_length,
                   next_needs_bos_token, appended>>

VpConsistentOneWay(vp, prompt) == vp => prompt

\* The asserted condition of lines 203-204.
VpConsistent(vp, prompt) == (vp /\ prompt) \/ (~vp /\ ~prompt)

CheckVp ==
    /\ pc = "assert"
    /\ IF VpConsistent(has_vp, has_prompt_mask)
       THEN pc' = "for" /\ UNCHANGED error
       ELSE Raise("AssertionError", 203)
    /\ UNCHANGED <<instances, flagVars, listVars, padVars, data_dict,
                   input_ids, labels>>
    /\ UNCHANGED <<tileVars, tokenizer, conversation, max_length,
                   next_needs_bos_token, appended>>

Frame(id) == Tensor(<<id>>)
Frames(list) == [i \in 1..Len(list.items) |-> Frame(list.items[i])]

\* np.stack / torch.stack of a list of masks along a new leading axis.
Stack(list) == Tensor(list.items)

\* torch.Tensor([False] * n)
Zeros(n) == Tensor(Repeat(0, n))

\* One iteration of the loop of lines 214-250 over the next record.
ForExample ==
    /\ pc = "for"
    /\ Len(input_ids) < Len(instances)
    /\ LET example == instances[Len(input_ids) + 1]
           m       == example.modal
           own_vp  == NotNone(m.vp_overall_mask)
       IN  IF has_image /\ m.pixel_values = Absent
           THEN Raise("KeyError", 219) /\ UNCHANGED <<input_ids, labels, listVars>>
           ELSE IF has_image /\ has_pe /\ m.image_grid_thw = Absent
           THEN Raise("KeyError", 221) /\ UNCHANGED <<input_ids, labels, listVars>>
           ELSE IF has_image /\ has_vp /\ ~own_vp /\ m.pixel_values[1].kind = "None"
           THEN Raise("TypeError", 226) /\ UNCHANGED <<input_ids, labels, listVars>>
           ELSE
             /\ input_ids' = Append(input_ids, example.input_ids)
             /\ labels' = Append(labels, example.labels)
             /\ pixel_values' =
                   IF has_image THEN Append(pixel_values, m.pixel_values[1])
                   ELSE pixel_values
             /\ image_grid_thw' =
                   IF has_image /\ has_pe
                   THEN Append(image_grid_thw, m.image_grid_thw[1])
                   ELSE image_grid_thw
             /\ vp_overall_mask' =
                   IF has_image /\ has_vp
                   THEN Append(vp_overall_mask,
                               IF own_vp THEN m.vp_overall_mask[1]
                               ELSE Zeros(Len(m.pixel_values[1].items)))
                   ELSE vp_overall_mask
             /\ IF has_grounding_image /\ m.g_pixel_values # Absent
                THEN IF m.g_pixel_values[1].kind = "list"
                     THEN /\ grounding_pixel_values' =
                               grounding_pixel_values \o Frames(m.g_pixel_values[1])
                          /\ frames_per_batch' =
                               Append(frames_per_batch,
                                      Len(m.g_pixel_values[1].items))
                     ELSE /\ grounding_pixel_values' =
                               Append(grounding_pixel_values, m.g_pixel_values[1])
                          /\ frames_per_batch' = Append(frames_per_batch, 1)
                ELSE UNCHANGED <<grounding_pixel_values, frames_per_batch>>
             /\ object_masks' =
                   IF has_mask /\ NotNone(m.masks)
                   THEN Append(object_masks,
                               IF m.masks[1].kind = "list" THEN Stack(m.masks[1])
                               ELSE m.masks[1])
                   ELSE object_masks
             /\ prompt_masks' =
                   IF has_prompt_mask /\ m.prompt_masks # Absent
                   THEN Append(prompt_masks, m.prompt_masks[1])
                   ELSE prompt_masks
             /\ pc' = "for"
             /\ UNCHANGED error
    /\ UNCHANGED <<instances, flagVars, padVars, data_dict>>
    /\ UNCHANGED <<tileVars, tokenizer, conversation, max_length,
                   next_needs_bos_token, appended>>

RECURSIVE MaxLen(_, _)
MaxLen(seqs, i) ==
    IF i > Len(seqs) THEN 0
    ELSE LET rest == MaxLen(seqs, i + 1)
         IN  IF Len(seqs[i]) > rest THEN Len(seqs[i]) ELSE rest

\* pad_sequence(seqs, batch_first=True, padding_value=value); for a single
\* sequence it is torch.stack.
PadSequence(seqs, value) ==
    [r \in 1..Len(seqs) |->
        [j \in 1..MaxLen(seqs, 1) |->
            IF j <= Len(seqs[r]) THEN seqs[r][j] ELSE value]]

MaskFromPadId(padded, lengths) ==
    [r \in 1..Len(padded) |->
        [j \in 1..Len(padded[r]) |-> padded[r][j] # pad_index]]

\* zeros_like(input_ids).bool() with [i, :length] set for every row.
AttentionMask(padded, lengths) ==
    [r \in 1..Len(padded) |->
        [j \in 1..Len(padded[r]) |-> j <= lengths[r]]]

\* arange(seq_len) repeated for every row.
PositionIds(bs, seq_len) == [r \in 1..bs |-> [j \in 1..seq_len |-> j - 1]]

\* Lines 252-269.
Pad ==
    /\ pc = "for"
    /\ Len(input_ids) = Len(instances)
    /\ IF Len(instances) = 0
       THEN /\ Raise("RuntimeError", 259)
            /\ UNCHANGED <<input_ids, labels, padVars>>
       ELSE LET lengths == [i \in 1..Len(input_ids) |-> Len(input_ids[i])]
                padded  == PadSequence(input_ids, pad_index)
            IN  /\ ori_length' = lengths
                /\ input_ids' = padded
                /\ labels' = PadSequence(labels, IGNORE_INDEX)
                /\ attention_mask' = AttentionMask(padded, lengths)
                /\ position_ids' = PositionIds(Len(padded), Len(padded[1]))
                /\ pc' = "assemble"
                /\ UNCHANGED error
    /\ UNCHANGED <<instances, flagVars, listVars, data_dict>>
    /\ UNCHANGED <<tileVars, tokenizer, conversation, max_length,
                   next_needs_bos_token, appended>>

RECURSIVE Cat(_, _)
\* torch.cat(tensors, dim=0)
Cat(tensors, i) ==
    IF i > Len(tensors) THEN <<>> ELSE tensors[i].items \o Cat(tensors, i + 1)

When(flag, value) == IF flag THEN Some(value) ELSE Absent

\* Lines 271-302.
Assemble ==
    /\ pc = "assemble"
    /\ IF has_image /\ \E i \in 1..Len(pixel_values) : pixel_values[i].kind # "Tensor"
       THEN Raise("AssertionError", 282) /\ UNCHANGED data_dict
       ELSE IF has_vp /\ vp_overall_mask = <<>>
       THEN Raise("RuntimeError", 291) /\ UNCHANGED data_dict
       ELSE /\ data_dict' = Some(
                   [input_ids |-> input_ids,
                    attention_mask |-> attention_mask,
                    position_ids |-> position_ids,
                    labels |-> labels,
                    frames_per_batch |-> When(has_image, frames_per_batch),
                    pixel_values |-> When(has_image, pixel_values),
                    image_grid_thw |-> When(has_image /\ has_pe, image_grid_thw),
                    vp_overall_mask |-> When(has_vp, Tensor(Cat(vp_overall_mask, 1))),
                    prompt_masks |-> When(has_prompt_mask, prompt_masks),
                    g_pixel_values |-> When(has_grounding_image,
                                            grounding_pixel_values),
                    masks |-> When(has_mask, object_masks)])
            /\ pc' = "collated"
            /\ UNCHANGED error
    /\ UNCHANGED <<instances, flagVars, listVars, padVars, input_ids, labels>>
    /\ UNCHANGED <<tileVars, tokenizer, conversation, max_length,
                   next_needs_bos_token, appended>>

InitCollate ==
    /\ pc = "collate"
    /\ instances \in Batches
    /\ has_image = FALSE
    /\ has_pe = FALSE
    /\ has_grounding_image = FALSE
    /\ has_mask = FALSE
    /\ has_vp = FALSE
    /\ has_prompt_mask = FALSE
    /\ pixel_values = <<>>
    /\ frames_per_batch = <<>>
    /\ image_grid_thw = <<>>
    /\ grounding_pixel_values = <<>>
    /\ object_masks = <<>>
    /\ vp_overall_mask = <<>>
    /\ prompt_masks = <<>>
    /\ ori_length = <<>>
    /\ attention_mask = <<>>
    /\ position_ids = <<>>
    /\ data_dict = <<>>
    /\ error = <<>>
    /\ InitTileIdle
    /\ InitTokIdle

NextCollate ==
    \/ Presence
    \/ CheckVp
    \/ ForExample
    \/ Pad
    \/ Assemble

SpecCollate == InitCollate /\ [][NextCollate]_vars

\* ------------------------------------------------------------------------
\* Properties of tokenize_conversation (SpecTok)
\* ------------------------------------------------------------------------
\* A flag of a turn that is true, explicitly or by its default of true.
FlagTrue(entry) == entry \in {Absent, Some(TRUE)}

Steps(kind, k) == {i \in 1..Len(appended) :
                      appended[i].kind = kind /\ appended[i].turn = k}

RECURSIVE Concat(_, _)
Concat(steps, i) ==
    IF i > Len(steps) THEN <<>> ELSE steps[i].ids \o Concat(steps, i + 1)

\* C1: input_ids and labels have the same length after every append step
\* and in the result, and the result is no longer than max_length.
C1_LengthInvariant ==
    /\ Len(input_ids) = Len(labels)
    /\ pc = "returned" => Len(input_ids) <= max_length

C1_Witness ==
    /\ pc = "returned"
    /\ Len(conversation) = 2
    /\ Len(Concat(appended, 1)) > max_length
    /\ max_length = 2
    /\ Len(labels) = 2

\* C2: before truncation, BOS is inserted right before turn k's input iff
\* k is the first turn or turn k-1 needed EOS, and EOS is appended right
\* after turn k's output iff turn k needs EOS (true by default); between a
\* turn that needs no EOS and the next turn's input there is nothing but
\* the turn's sep.
C2_BosEosPlacement ==
    pc = "loop" =>
      /\ input_ids = Concat(appended, 1)
      /\ \A k \in 1..Len(conversation) :
           /\ Cardinality(Steps("input", k)) = 1
           /\ Cardinality(Steps("output", k)) = 1
           /\ Steps("bos", k) =
                 IF k = 1 \/ FlagTrue(conversation[k - 1].need_eos_token)
                 THEN {i - 1 : i \in Steps("input", k)}
                 ELSE {}
           /\ Steps("eos", k) =
                 IF FlagTrue(conversation[k].need_eos_token)
                 THEN {i + 1 : i \in Steps("output", k)}
                 ELSE {}
           /\ Steps("output", k) = {i + 1 : i \in Steps("input", k)}
           /\ (k > 1 /\ ~FlagTrue(conversation[k - 1].need_eos_token)) =>
                 \A i \in Steps("output", k - 1), j \in Steps("input", k) :
                     \A m \in (i + 1)..(j - 1) :
                         appended[m].kind = "sep" /\ appended[m].turn = k - 1

C2_Witness ==
    /\ pc = "loop"
    /\ Len(conversation) = 2
    /\ conversation[1].need_eos_token = Some(FALSE)
    /\ conversation[2].need_eos_token = Absent
    /\ tokenizer.bos # <<>>
    /\ tokenizer.eos # <<>>
    /\ Steps("bos", 2) = {}
    /\ Steps("eos", 1) = {}
    /\ Steps("eos", 2) # {}

\* The positions of the result that the append step st wrote.
Span(st) == {i \in 1..Len(input_ids) : st.at < i /\ i <= st.at + Len(st.ids)}

\* C3: in the result every label is IGNORE or the token id at its
\* position; BOS, input and sep positions are IGNORE; output and EOS
\* positions carry the token ids when the turn's output_with_loss is true
\* (the default) and IGNORE when it is false.
C3_LossMasking ==
    pc = "returned" =>
      /\ \A i \in 1..Len(input_ids) : labels[i] \in {IGNORE_INDEX, input_ids[i]}
      /\ \A n \in 1..Len(appended) :
           LET st == appended[n]
           IN  \A i \in Span(st) :
                 IF st.kind \in {"output", "eos"}
                    /\ FlagTrue(conversation[st.turn].output_with_loss)
                 THEN labels[i] = st.ids[i - st.at] /\ labels[i] = input_ids[i]
                 ELSE labels[i] = IGNORE_INDEX

C3_Witness ==
    /\ pc = "returned"
    /\ Len(conversation) = 1
    /\ conversation[1].output_with_loss = Some(FALSE)
    /\ conversation[1].input # <<>>
    /\ \E n \in 1..Len(appended) :
         /\ appended[n].kind = "eos"
         /\ Span(appended[n]) # {}
         /\ \A i \in Span(appended[n]) : labels[i] = IGNORE_INDEX

\* ------------------------------------------------------------------------
\* Properties of dynamic_preprocess (SpecTile)
\* ------------------------------------------------------------------------
Abs(x) == IF x < 0 THEN -x ELSE x

\* |W/H - r[1]/r[2]| <= |W/H - q[1]/q[2]| over the rationals.
NoFarther(r, q) ==
    Abs(image[1] * r[2] - r[1] * image[2]) * q[2]
        <= Abs(image[1] * q[2] - q[1] * image[2]) * r[2]

\* The positions of target_ratios whose ratio difference is the least one.
Closest == {i \in 1..Len(target_ratios) :
               \A j \in 1..Len(target_ratios) :
                   NoFarther(target_ratios[i], target_ratios[j])}

\* Those of them with W*H > 0.5 * image_size^2 * cols * rows.
ClosestPreferred ==
    {i \in Closest :
        2 * image[1] * image[2] >
            image_size * image_size * target_ratios[i][1] * target_ratios[i][2]}

Largest(S) == CHOOSE i \in S : \A j \in S : j <= i
Smallest(S) == CHOOSE i \in S : \A j \in S : i <= j

\* C7: for 1 <= min_num <= max_num the chosen grid has a tile count within
\* min_num..max_num, its ratio difference |W/H - cols/rows| is the least
\* over all candidates, and among the exactly tied candidates it is the
\* last one in scan order with W*H > 0.5*image_size^2*cols*rows, or the
\* first tied one when none has.
C7_ClosestRatio ==
    (pc = "tiled" /\ min_num <= max_num) =>
      /\ min_num <= target_aspect_ratio[1] * target_aspect_ratio[2]
      /\ target_aspect_ratio[1] * target_aspect_ratio[2] <= max_num
      /\ \A i \in 1..Len(target_ratios) :
             NoFarther(target_aspect_ratio, target_ratios[i])
      /\ target_aspect_ratio =
             IF ClosestPreferred # {}
             THEN target_ratios[Largest(ClosestPreferred)]
             ELSE target_ratios[Smallest(Closest)]

Tiles == target_aspect_ratio[1] * target_aspect_ratio[2]

\* C8: at least one tile is returned; the tiles are the cols*rows crops of
\* the chosen grid, followed by exactly one thumbnail iff use_thumbnail is
\* set and cols*rows > 1.  A 1344x448 image (min 1, max 6, size 448) gives
\* the grid 3x1 and three crops left to right; a 448x448 image gives one
\* tile even with use_thumbnail.
C8_TileCount ==
    pc = "tiled" =>
      /\ Len(processed_images) >= 1
      /\ Len(processed_images) =
             Tiles + (IF use_thumbnail /\ Tiles > 1 THEN 1 ELSE 0)
      /\ \A k \in 1..Len(processed_images) :
             processed_images[k].kind = IF k <= Tiles THEN "crop" ELSE "thumbnail"
      /\ (image = <<1344, 448>> /\ min_num = 1 /\ max_num = 6 /\ image_size = 448) =>
             /\ target_aspect_ratio = <<3, 1>>
             /\ SubSeq(processed_images, 1, 3) =
                   << [kind |-> "crop", box |-> <<0, 0, 448, 448>>],
                      [kind |-> "crop", box |-> <<448, 0, 896, 448>>],
                      [kind |-> "crop", box |-> <<896, 0, 1344, 448>>] >>
             /\ ~use_thumbnail => Len(processed_images) = 3
      /\ (image = <<448, 448>> /\ min_num = 1 /\ max_num = 6 /\ image_size = 448) =>
             Len(processed_images) = 1

C8_Witness ==
    /\ pc = "tiled"
    /\ image = <<1344, 448>>
    /\ use_thumbnail
    /\ Len(processed_images) = 4
    /\ processed_images[4].kind = "thumbnail"

\* ------------------------------------------------------------------------
\* Properties of sa2va_collect_fn (SpecCollate)
\* ------------------------------------------------------------------------
Rows == 1..Len(instances)

LongestRecord ==
    CHOOSE n \in 0..MaxSeq + 1 :
        /\ \A r \in Rows : Len(instances[r].input_ids) <= n
        /\ \E r \in Rows : Len(instances[r].input_ids) = n

\* C4: the batch of a non-empty record list has n rows of L columns, L the
\* longest record; each row holds the record's own ids and labels, then the
\* pad id and IGNORE; attention_mask is true exactly on the record's own
\* positions; position_ids is 0..L-1 in every row.
C4_Padding ==
    (pc = "collated" /\ Len(instances) > 0) =>
      LET d == data_dict[1]
          L == LongestRecord
      IN  /\ Len(d.input_ids) = Len(instances)
          /\ Len(d.labels) = Len(instances)
          /\ Len(d.attention_mask) = Len(instances)
          /\ Len(d.position_ids) = Len(instances)
          /\ \A r \in Rows :
               LET own == Len(instances[r].input_ids)
               IN  /\ Len(d.input_ids[r]) = L
                   /\ Len(d.labels[r]) = L
                   /\ Len(d.attention_mask[r]) = L
                   /\ d.position_ids[r] = [j \in 1..L |-> j - 1]
                   /\ \A j \in 1..L :
                        /\ d.attention_mask[r][j] = (j <= own)
                        /\ d.input_ids[r][j] =
                              IF j <= own THEN instances[r].input_ids[j]
                              ELSE pad_index
                        /\ d.labels[r][j] =
                              IF j <= own THEN instances[r].labels[j]
                              ELSE IGNORE_INDEX

C4_Witness ==
    /\ pc = "collated"
    /\ Len(instances) = 2
    /\ Len(instances[1].input_ids) = 1
    /\ instances[1].input_ids[1] = pad_index
    /\ Len(instances[2].input_ids) = 2
    /\ data_dict[1].attention_mask[1] = <<TRUE, FALSE>>
    /\ data_dict[1].position_ids[1] = <<0, 1>>

WithPixels == {r \in Rows : NotNone(instances[r].modal.pixel_values)}

RECURSIVE PixelsFrom(_)
PixelsFrom(r) ==
    IF r > Len(instances) THEN <<>>
    ELSE IF r \in WithPixels
    THEN <<instances[r].modal.pixel_values[1]>> \o PixelsFrom(r + 1)
    ELSE PixelsFrom(r + 1)

RecordsHaveVp == \E r \in Rows : NotNone(instances[r].modal.vp_overall_mask)
RecordsHavePromptMask == \E r \in Rows : NotNone(instances[r].modal.prompt_masks)

ErrorAt(lines) == error # <<>> /\ error[1].line \in lines

\* C5: a batch in which only some records have a pixel tensor does not
\* make the collator fail, and its pixel_values are exactly the tensors of
\* the records that have one, in record order.
C5_PartialPixels ==
    (WithPixels # {} /\ WithPixels # Rows) =>
      /\ ~ErrorAt({219, 226, 282})
      /\ pc = "collated" => data_dict[1].pixel_values = Some(PixelsFrom(1))

\* C6: the collator fails with an assertion error, having built nothing,
\* whenever exactly one of has_vp and has_prompt_mask holds of the records,
\* and the check of the two flags never fails when they agree.
C6_VpPrecondition ==
    /\ (RecordsHaveVp # RecordsHavePromptMask /\ pc \notin {"collate", "assert"}) =>
          /\ pc = "failed"
          /\ error[1].type = "AssertionError"
          /\ input_ids = <<>> /\ labels = <<>>
          /\ pixel_values = <<>> /\ vp_overall_mask = <<>> /\ prompt_masks = <<>>
          /\ data_dict = <<>>
    /\ ErrorAt({203}) => RecordsHaveVp # RecordsHavePromptMask

C6_Witness ==
    /\ pc = "failed"
    /\ ErrorAt({203})
    /\ RecordsHaveVp
    /\ ~RecordsHavePromptMask

\* The frame count of every record that has a grounding pixel tensor.
RECURSIVE FrameCounts(_)
FrameCounts(r) ==
    IF r > Len(instances) THEN <<>>
    ELSE LET g == instances[r].modal.g_pixel_values
         IN  IF NotNone(g)
             THEN <<IF g[1].kind = "list" THEN Len(g[1].items) ELSE 1>>
                      \o FrameCounts(r + 1)
             ELSE FrameCounts(r + 1)

RECURSIVE Sum(_, _)
Sum(s, i) == IF i > Len(s) THEN 0 ELSE s[i] + Sum(s, i + 1)

\* C9: a returned batch with g_pixel_values also has frames_per_batch, one
\* count per record that has a grounding pixel tensor, in record order, and
\* the counts add up to the number of grounding frames.
C9_FramesPerBatch ==
    (pc = "collated" /\ data_dict[1].g_pixel_values # Absent) =>
      /\ data_dict[1].frames_per_batch # Absent
      /\ data_dict[1].frames_per_batch = Some(FrameCounts(1))
      /\ Sum(FrameCounts(1), 1) = Len(data_dict[1].g_pixel_values[1])

\* The visual-prompt vector of every record: its own, or all-false of the
\* length of its pixel tensor.
RECURSIVE VpVectors(_)
VpVectors(r) ==
    IF r > Len(instances) THEN <<>>
    ELSE LET m == instances[r].modal
         IN  (IF NotNone(m.vp_overall_mask) THEN m.vp_overall_mask[1].items
              ELSE Repeat(0, Len(m.pixel_values[1].items)))
                 \o VpVectors(r + 1)

VpVectorsDefined ==
    \A r \in Rows : \/ NotNone(instances[r].modal.vp_overall_mask)
                    \/ NotNone(instances[r].modal.pixel_values)

\* C10: when has_vp holds and the vp/prompt-mask precondition is met, the
\* collator returns vp_overall_mask, the concatenation in record order of
\* every record's vector.
C10_VpOverallMask ==
    (RecordsHaveVp /\ RecordsHavePromptMask /\ VpVectorsDefined
       /\ pc \in {"failed", "collated"} /\ ~ErrorAt({190, 191, 221})) =>
      /\ pc = "collated"
      /\ data_dict[1].vp_overall_mask = Some(Tensor(VpVectors(1)))

====
